---- MODULE Spec2Model ----
(***************************************************************************)
(* yachat: a group chat client over a peer network.                        *)
(*                                                                         *)
(* The module models the two actors of the program:                        *)
(*   - Chat (src/src/chat.rs): the peer registry `users`, the per-peer     *)
(*     delivery queue `delivery`, the outbound fan-out of a typed line and *)
(*     the resend that a reappearing peer triggers;                        *)
(*   - Discovery (src/src/discover.rs): the group subscriptions, the       *)
(*     polling pass over them and the unsubscription at shutdown.          *)
(*                                                                         *)
(* Every actix handler is one action (its synchronous body runs without    *)
(* interleaving inside the actor); every `.await` of a future a handler    *)
(* spawns is a position of that future (a pc), and the step that resumes   *)
(* it is an action of its own.                                             *)
(***************************************************************************)
EXTENDS Integers, Sequences, FiniteSets, TLC

\* ------------------------------------------------------------------------
\* Bounds of the model
\* ------------------------------------------------------------------------
MaxNodes == 2
MaxLines == 2
MaxResends == 2
MaxFailures == 3
MaxJoins == 2
MaxBatch == 2

Nodes == 1..MaxNodes
Names == {"alice", "bob", "carol"}
Me == "alice"
\* The names the peers announce where only the delivery queue is of interest.
ChatNames == {Me, "bob"}
Slots == 1..MaxResends
Groups == {"g1", "g2"}
Joins == 1..MaxJoins

\* A TextMessage is identified by the number of the line it was built from;
\* its timestamp (Utc::now() when the line is handled) grows with that number.
Texts == 1..MaxLines

\* ------------------------------------------------------------------------
\* State
\* ------------------------------------------------------------------------
VARIABLES
    users,      \* Chat.users: sequence of UserDesc
    delivery,   \* Chat.delivery: HashMap<NodeId, SendText>, a function on the keys present
    mailbox,    \* DeliverLater messages sent to the Chat actor and not yet handled (FIFO)
    line,       \* the future of the NewLine being processed (input_reader awaits it)
    resends,    \* the resend futures spawned by reappearances
    nextLine,   \* number of the next line read from stdin
    console,    \* last appearance line printed by the NewUser handler
    failures,   \* environment: how many transport sends have failed
    delivered,  \* history: what the transport handed to each peer, in order
    failLog,    \* history: the typed lines whose transport send to a peer failed, in order
    drainedLen, \* history: how much of failLog the peer's last reappearance had seen queued
    requeued,   \* history: a failed resend was put back for the peer since its last reappearance
    owed,       \* history: messages a reappearance took from a peer's entry, less those of
                \* a resend that failed afterwards
    first,      \* history: the name of the first appearance handled for an identity ("" if none)
    lastEvent,  \* history: the last NewUser handled with a name other than ours
    selfSeen,   \* history: a proposal with our own name was dispatched to Chat
    received    \* the last inbound envelope, the reply to it and the lines printed for it

\* What the handlers of the delivery queue never write.
ioVars == <<selfSeen, received>>

chatVars == <<users, delivery, mailbox, line, resends, nextLine, console,
              failures, delivered, failLog, drainedLen, requeued,
              owed, first, lastEvent, ioVars>>

VARIABLES
    listeners,      \* Discovery.listeners: sequence of GroupSubscription
    subscriptions,  \* Discovery.subscriptions: sequence of offer subscription ids
    joins,          \* the futures of the InitChatGroup requests
    pass,           \* the future of the DiscoverUsers pass
    armed,          \* DiscoverUsers messages sent to the Discovery actor and not yet handled
    sd,             \* the future of Shutdown
    market,         \* the offers and demands published at the market and not unsubscribed
    attempted,      \* history: the legs an unsubscribe was called for
    sent,           \* history: the NewUser messages dispatched from the batch in hand
    batch           \* history: the events taken from the batch in hand, where it is kept

discVars == <<listeners, subscriptions, joins, pass, armed, sd, market,
              attempted, sent, batch>>

vars == <<chatVars, discVars>>

\* ------------------------------------------------------------------------
\* Helpers
\* ------------------------------------------------------------------------
Range(s) == {s[i] : i \in 1..Len(s)}

\* No inbound envelope yet.
NoEnvelope == [caller |-> 0, user |-> "", messages |-> <<>>]
NotReceived == [seen |-> FALSE, envelope |-> NoEnvelope, reply |-> "none", lines |-> <<>>]

\* SendText built by the NewLine handler and by the DeliverLater handler.
SendText(user, messages) == [user |-> user, messages |-> messages]

\* Variant: only the descriptor pushed last is compared.
FindUserLastOnly(us, address) ==
    IF us # <<>> /\ us[Len(us)].node_id = address THEN Len(us) ELSE 0

\* self.users.iter().find(|desc| desc.node_id == address)
FindUser(us, address) ==
    LET hits == {i \in 1..Len(us) : us[i].node_id = address}
    IN  IF hits = {} THEN 0 ELSE CHOOSE i \in hits : \A j \in hits : i <= j

\* What is queued for a peer: the messages of its entry, nothing if absent.
Pending(d, address) ==
    IF address \in DOMAIN d THEN d[address].messages ELSE <<>>

\* Variant: the whole map is emptied (clear in place of remove).
DeliveryRemoveAll(d, address) == [n \in {} |-> SendText(Me, <<>>)]

\* Variant: the entry is read and stays in the map (get in place of remove).
DeliveryKeep(d, address) == d

\* Variant: the entry is emptied and stays in the map.
DeliveryClear(d, address) ==
    [n \in DOMAIN d |-> IF n = address THEN SendText(Me, <<>>) ELSE d[n]]

\* self.delivery.remove(&node_id)
DeliveryRemove(d, address) ==
    [n \in (DOMAIN d) \ {address} |-> d[n]]

\* Variant: self.delivery.insert(address, SendText{messages, user: me}), which
\* replaces what was queued.
DeliveryInsert(d, address, messages) ==
    [n \in (DOMAIN d) \cup {address} |->
        IF n = address THEN SendText(Me, messages) ELSE d[n]]

\* Variant: the new messages are put in front of the queued ones.
DeliveryPrepend(d, address, messages) ==
    [n \in (DOMAIN d) \cup {address} |->
        IF n = address
        THEN IF address \in DOMAIN d
             THEN [d[address] EXCEPT !.messages = messages \o @]
             ELSE SendText(Me, messages)
        ELSE d[n]]

\* self.delivery.entry(address).or_insert(SendText{messages: vec![], user: me})
\*     .messages.extend(messages)
DeliveryExtend(d, address, messages) ==
    [n \in (DOMAIN d) \cup {address} |->
        IF n = address
        THEN IF address \in DOMAIN d
             THEN [d[address] EXCEPT !.messages = @ \o messages]
             ELSE SendText(Me, <<>> \o messages)
        ELSE d[n]]

\* The NewLine future: idle between two lines, otherwise at one of the awaits
\* of its loop ("bus": the transport send, "later": the reply to DeliverLater).
\* `result` keeps what the last finished NewLine answered.
IdleLine(result) ==
    [pc |-> "idle", text |-> SendText(Me, <<>>), addresses |-> <<>>,
     idx |-> 0, result |-> result]

\* A resend future that is not running.
FreeSlot == [pc |-> "free", addr |-> 0, text |-> SendText(Me, <<>>)]

FreeSlots == {s \in Slots : resends[s].pc = "free"}

\* Variant: the loop ends after the first address.
LineAdvanceBreak(l) == IdleLine("Ok")

\* for addr in addresses.iter() { send_text(..).await?; } Ok(())
\* The loop after send_text returned Ok for addresses[idx]: the next send, or
\* the end of the future.
LineAdvance(l) ==
    IF l.idx + 1 > Len(l.addresses)
    THEN IdleLine("Ok")
    ELSE [l EXCEPT !.pc = "bus", !.idx = @ + 1]

\* The message of the typed line waiting in the mailbox for a peer, if any.
LineInFlight(mb, address) ==
    LET hits == {i \in 1..Len(mb) : mb[i].from = 0 /\ mb[i].address = address}
    IN  IF hits = {} THEN <<>> ELSE mb[CHOOSE i \in hits : TRUE].messages.messages

\* Variant: the transport's error is returned to the caller (.await?).
SendTextRaises(transportOk) ==
    IF transportOk THEN "Ok" ELSE "Err"

\* send_text: what the call does with the transport's answer.  "Ok": return
\* Ok(()); "Later": send DeliverLater to the Chat actor and await its reply;
\* "Err": return the error to the caller.
SendTextOutcome(transportOk) ==
    IF transportOk THEN "Ok" ELSE "Later"

\* ------------------------------------------------------------------------
\* Initial state: Chat::new
\* ------------------------------------------------------------------------
ChatInit ==
    /\ users = <<>>
    /\ delivery = [n \in {} |-> SendText(Me, <<>>)]
    /\ mailbox = <<>>
    /\ line = IdleLine("none")
    /\ resends = [s \in Slots |-> FreeSlot]
    /\ nextLine = 1
    /\ console = [kind |-> "none", name |-> Me]
    /\ failures = 0
    /\ delivered = [n \in Nodes |-> <<>>]
    /\ failLog = [n \in Nodes |-> <<>>]
    /\ drainedLen = [n \in Nodes |-> 0]
    /\ requeued = [n \in Nodes |-> FALSE]
    /\ owed = [n \in Nodes |-> {}]
    /\ first = [n \in Nodes |-> ""]
    /\ lastEvent = [user |-> "", address |-> 0, again |-> FALSE]
    /\ selfSeen = FALSE
    /\ received = NotReceived

\* ------------------------------------------------------------------------
\* Handler<NewUser> for Chat
\* ------------------------------------------------------------------------
\* Variant: the entry is removed and nothing is spawned.
ResendTaskDropped(returning_user, messages) == FreeSlot

\* The future the handler spawns for a returning user:
\* send_text(myself, &returning_user.node_id, &messages), error logged.
ResendTask(returning_user, messages) ==
    [pc |-> "bus", addr |-> returning_user.node_id, text |-> messages]

\* Variant: no occurrence is taken for our own.
RejectedNever(user) == FALSE

\* Filter our own occurrences: if msg.user == self.me { return Ok(()) }
Rejected(user) == user = Me

HandleNewUser(user, address) ==
    IF Rejected(user)
    THEN \* our own occurrence: rejected, nothing printed
         UNCHANGED <<users, delivery, resends, console>>
    ELSE LET i == FindUser(users, address)
         IN  IF i # 0
             THEN LET returning_user == users[i]
                  IN  /\ console' = [kind |-> "reappeared", name |-> returning_user.name]
                      /\ users' = users
                      /\ IF returning_user.node_id \in DOMAIN delivery
                         THEN /\ FreeSlots # {}
                              /\ LET s == CHOOSE f \in FreeSlots : \A g \in FreeSlots : f <= g
                                 IN  resends' = [resends EXCEPT ![s] =
                                         ResendTask(returning_user,
                                                    delivery[returning_user.node_id])]
                              /\ delivery' = DeliveryRemove(delivery, returning_user.node_id)
                         ELSE UNCHANGED <<delivery, resends>>
             ELSE /\ console' = [kind |-> "new", name |-> user]
                  /\ users' = Append(users, [name |-> user, node_id |-> address])
                  /\ UNCHANGED <<delivery, resends>>

\* History of the queue kept along a NewUser: a reappearance of a registered
\* identity closes the run of failed sends counted for it.
QueueHistory(user, address) ==
    IF user # Me /\ FindUser(users, address) # 0
    THEN /\ drainedLen' = [drainedLen EXCEPT ![address] =
                Len(failLog[address]) - Len(LineInFlight(mailbox, address))]
         /\ requeued' = [requeued EXCEPT ![address] = FALSE]
         /\ owed' = [owed EXCEPT ![address] = @ \cup Range(Pending(delivery, address))]
    ELSE UNCHANGED <<drainedLen, requeued, owed>>

\* History of the registry kept along a NewUser.
RegistryHistory(user, address) ==
    IF user # Me
    THEN /\ first' = IF first[address] = "" THEN [first EXCEPT ![address] = user] ELSE first
         /\ lastEvent' = [user |-> user, address |-> address, again |-> first[address] # ""]
    ELSE UNCHANGED <<first, lastEvent>>

\* The identities a NewUser may carry: the registered ones and one that is
\* not; the nodes are numbered in the order in which they are registered.
Addresses == {n \in Nodes : n <= Len(users) + 1}

\* A NewUser sent by Discovery, where the delivery queue is of interest.
NewUserMsg ==
    \E user \in ChatNames, address \in Addresses :
        /\ HandleNewUser(user, address)
        /\ QueueHistory(user, address)
        /\ UNCHANGED <<mailbox, line, nextLine, failures, delivered, failLog,
                       first, lastEvent>>
        /\ UNCHANGED ioVars
        /\ UNCHANGED ioVars
    /\ UNCHANGED discVars

\* A NewUser sent by Discovery, with any name.
Appearance ==
    \E user \in Names, address \in Addresses :
        /\ HandleNewUser(user, address)
        /\ QueueHistory(user, address)
        /\ RegistryHistory(user, address)
        /\ UNCHANGED <<mailbox, line, nextLine, failures, delivered, failLog>>
        /\ UNCHANGED ioVars
        /\ UNCHANGED ioVars
    /\ UNCHANGED discVars

\* ------------------------------------------------------------------------
\* Handler<NewLine> for Chat and the future it returns.  input_reader awaits
\* the answer of one NewLine before it reads the next line.
\* ------------------------------------------------------------------------
NewLineMsg ==
    /\ line.pc = "idle"
    /\ nextLine <= MaxLines
    /\ LET addresses == [i \in 1..Len(users) |-> users[i].node_id]
       IN  line' = IF addresses = <<>>
                   THEN IdleLine("Ok")
                   ELSE [pc |-> "bus",
                         text |-> SendText(Me, <<nextLine>>),
                         addresses |-> addresses,
                         idx |-> 1,
                         result |-> "none"]
    /\ nextLine' = nextLine + 1
    /\ UNCHANGED <<users, delivery, mailbox, resends, console, failures,
                   delivered, failLog, drainedLen, requeued, owed, first, lastEvent>>
    /\ UNCHANGED ioVars
    /\ UNCHANGED discVars

\* The transport answers the send of the line to addresses[idx].
LineBus ==
    /\ line.pc = "bus"
    /\ \E transportOk \in BOOLEAN :
        /\ transportOk \/ failures < MaxFailures
        /\ failures' = IF transportOk THEN failures ELSE failures + 1
        /\ LET addr == line.addresses[line.idx]
               outcome == SendTextOutcome(transportOk)
           IN  /\ delivered' = IF transportOk
                               THEN [delivered EXCEPT ![addr] = @ \o line.text.messages]
                               ELSE delivered
               /\ failLog' = IF transportOk
                             THEN failLog
                             ELSE [failLog EXCEPT ![addr] = @ \o line.text.messages]
               /\ CASE outcome = "Ok" ->
                         /\ line' = LineAdvance(line)
                         /\ UNCHANGED mailbox
                    [] outcome = "Later" ->
                         /\ mailbox' = Append(mailbox,
                                [address |-> addr, messages |-> line.text, from |-> 0])
                         /\ line' = [line EXCEPT !.pc = "later"]
                    [] OTHER ->
                         \* send_text(..).await? leaves the loop with the error
                         /\ line' = IdleLine("Err")
                         /\ UNCHANGED mailbox
    /\ UNCHANGED <<users, delivery, resends, nextLine, console,
                   drainedLen, requeued, owed, first, lastEvent>>
    /\ UNCHANGED ioVars
    /\ UNCHANGED discVars

\* ------------------------------------------------------------------------
\* The resend future spawned by a reappearance
\* ------------------------------------------------------------------------
ResendBus(s) ==
    /\ resends[s].pc = "bus"
    /\ \E transportOk \in BOOLEAN :
        /\ transportOk \/ failures < MaxFailures
        /\ failures' = IF transportOk THEN failures ELSE failures + 1
        /\ LET addr == resends[s].addr
               text == resends[s].text
               outcome == SendTextOutcome(transportOk)
           IN  /\ delivered' = IF transportOk
                               THEN [delivered EXCEPT ![addr] = @ \o text.messages]
                               ELSE delivered
               /\ owed' = IF transportOk
                          THEN owed
                          ELSE [owed EXCEPT ![addr] = @ \ Range(text.messages)]
               /\ IF outcome = "Later"
                  THEN /\ mailbox' = Append(mailbox,
                              [address |-> addr, messages |-> text, from |-> s])
                       /\ resends' = [resends EXCEPT ![s].pc = "later"]
                  ELSE \* delivered, or the error is logged and dropped by .ok()
                       /\ resends' = [resends EXCEPT ![s] = FreeSlot]
                       /\ UNCHANGED mailbox
    /\ UNCHANGED <<users, delivery, line, nextLine, console,
                   failLog, drainedLen, requeued, first, lastEvent>>
    /\ UNCHANGED ioVars
    /\ UNCHANGED discVars

\* ------------------------------------------------------------------------
\* Handler<DeliverLater> for Chat.  Its Ok answer resumes the send_text that
\* awaits it, which returns Ok(()) to the NewLine loop or to the resend.
\* ------------------------------------------------------------------------
HandleDeliverLater ==
    /\ mailbox # <<>>
    /\ LET msg == Head(mailbox)
       IN  /\ delivery' = DeliveryExtend(delivery, msg.address, msg.messages.messages)
           /\ mailbox' = Tail(mailbox)
           /\ IF msg.from = 0
              THEN /\ line' = LineAdvance(line)
                   /\ UNCHANGED <<resends, requeued>>
              ELSE /\ resends' = [resends EXCEPT ![msg.from] = FreeSlot]
                   /\ requeued' = [requeued EXCEPT ![msg.address] = TRUE]
                   /\ UNCHANGED line
    /\ UNCHANGED <<users, nextLine, console, failures, delivered, failLog, drainedLen,
                   owed, first, lastEvent>>
    /\ UNCHANGED ioVars
    /\ UNCHANGED discVars

\* ========================================================================
\* Discovery
\* ========================================================================

\* The ids the market gives to the offer and to the demand of the j-th join.
OfferId(j) == <<"offer", j>>
DemandId(j) == <<"demand", j>>

\* The events a collect may return: a proposal carries the issuer's id and the
\* properties of its offer; `issuer` is a node, or 0 when the id does not
\* parse as a NodeId; `me` is the /yachat/talk/me property, or "missing".
Events ==
    { [kind |-> "proposal", issuer |-> 1,     me |-> "bob"],
      [kind |-> "proposal", issuer |-> 2,     me |-> Me],
      [kind |-> "proposal", issuer |-> 0,     me |-> "bob"],
      [kind |-> "proposal", issuer |-> 1,     me |-> "missing"],
      [kind |-> "query",    issuer |-> 1,     me |-> "bob"] }

\* The body of the per-event block: the NewUser it builds, or an error.
ParseEvent(event, group) ==
    IF event.kind # "proposal"
    THEN [ok |-> FALSE, error |-> "Unexpected PropertyQuery"]
    ELSE IF event.issuer \notin Nodes
    THEN [ok |-> FALSE, error |-> "NodeId"]
    ELSE IF event.me \notin Names
    THEN [ok |-> FALSE, error |-> "pointer"]
    ELSE [ok |-> TRUE,
          msg |-> [group |-> group, address |-> event.issuer, user |-> event.me]]

\* The DiscoverUsers future: idle, or at one of the awaits of its loop over
\* the snapshot `subs`; `left` counts the events of the batch in hand that are
\* still to be processed (what they are shows as they are taken).
IdlePass == [pc |-> "idle", subs |-> <<>>, idx |-> 0, left |-> 0]
NoShutdown == [pc |-> "none", subs |-> <<>>, listeners |-> <<>>, idx |-> 0]

DiscInit ==
    /\ listeners = <<>>
    /\ subscriptions = <<>>
    /\ joins = [j \in Joins |-> [pc |-> "none", group |-> "g1"]]
    /\ pass = IdlePass
    /\ armed = 1
    /\ sd = NoShutdown
    /\ market = {}
    /\ attempted = {}
    /\ sent = <<>>
    /\ batch = <<>>

\* ------------------------------------------------------------------------
\* Handler<InitChatGroup> for Discovery and the future it returns
\* ------------------------------------------------------------------------

\* A join future that has ended holds nothing but its result.
JoinEnded(result) == [pc |-> result, group |-> "g1"]

InitChatGroupMsg ==
    \E j \in Joins, group \in Groups :
        /\ joins[j].pc = "none"
        /\ \A k \in Joins : k < j => joins[k].pc # "none"
        /\ joins' = [joins EXCEPT ![j] = [pc |-> "offer", group |-> group]]
        /\ UNCHANGED <<listeners, subscriptions, pass, armed, sd, market,
                       attempted, sent, batch>>
        /\ UNCHANGED chatVars

\* Variant: the ids are pushed whatever the result.
JoinMapAlways(result, ls, ss, listener, subscription, group) ==
    [listeners |-> Append(ls, [subscription |-> listener, group |-> group,
                               notify |-> "chat"]),
     subscriptions |-> Append(ss, subscription)]

\* The closure of .map: what the actor's lists become for the result of the
\* two subscribe calls.
JoinMap(result, ls, ss, listener, subscription, group) ==
    IF result = "Ok"
    THEN [listeners |-> Append(ls, [subscription |-> listener, group |-> group,
                                    notify |-> "chat"]),
          subscriptions |-> Append(ss, subscription)]
    ELSE [listeners |-> ls, subscriptions |-> ss]

\* apis.provider.market.subscribe(&offer).await?
JoinOffer(j) ==
    /\ joins[j].pc = "offer"
    /\ \E published \in BOOLEAN :
        IF published
        THEN /\ market' = market \cup {OfferId(j)}
             /\ joins' = [joins EXCEPT ![j].pc = "demand"]
             /\ UNCHANGED <<listeners, subscriptions>>
        ELSE LET after == JoinMap("Err", listeners, subscriptions,
                                  DemandId(j), OfferId(j), joins[j].group)
             IN  /\ listeners' = after.listeners
                 /\ subscriptions' = after.subscriptions
                 /\ joins' = [joins EXCEPT ![j] = JoinEnded("err")]
                 /\ UNCHANGED market
    /\ UNCHANGED <<pass, armed, sd, attempted, sent, batch>>
    /\ UNCHANGED chatVars

\* apis.requestor.market.subscribe(&demand).await?, then the closure
JoinDemand(j) ==
    /\ joins[j].pc = "demand"
    /\ \E published \in BOOLEAN :
        LET result == IF published THEN "Ok" ELSE "Err"
            after == JoinMap(result, listeners, subscriptions,
                             DemandId(j), OfferId(j), joins[j].group)
        IN  /\ market' = IF published THEN market \cup {DemandId(j)} ELSE market
            /\ listeners' = after.listeners
            /\ subscriptions' = after.subscriptions
            /\ joins' = [joins EXCEPT ![j] =
                            JoinEnded(IF published THEN "ok" ELSE "err")]
    /\ UNCHANGED <<pass, armed, sd, attempted, sent, batch>>
    /\ UNCHANGED chatVars

\* ------------------------------------------------------------------------
\* Handler<DiscoverUsers> for Discovery and the future it returns
\* ------------------------------------------------------------------------

\* The pass after it is done with subs[idx]: the collect of the next
\* subscription, or the end of the loop.
PassNext(p) ==
    IF p.idx < Len(p.subs)
    THEN [pc |-> "collect", subs |-> p.subs, idx |-> p.idx + 1, left |-> 0]
    ELSE IdlePass

\* Variant: the future returns after the backoff instead of going on.
AfterBackoffReturn(p) == [p EXCEPT !.pc = "stopped"]

\* Err(e) of collect: log, delay_for(4 s), continue.
AfterBackoff(p) == PassNext(p)

\* Variant: DiscoverUsers is sent at every step of the future.
RearmAlways(p, n) == n + 1

\* myself.do_send(DiscoverUsers {}) at the end of the future.
Rearm(p, n) == IF p.pc = "idle" THEN n + 1 ELSE n

DiscoverUsersMsg ==
    /\ armed > 0
    /\ pass.pc = "idle"
    /\ LET subs == listeners
           started == IF subs = <<>>
                      THEN IdlePass
                      ELSE [pc |-> "collect", subs |-> subs, idx |-> 1, left |-> 0]
       IN  /\ pass' = started
           /\ armed' = Rearm(started, armed - 1)
    /\ UNCHANGED <<listeners, subscriptions, joins, sd, market, attempted, sent, batch>>
    /\ UNCHANGED chatVars

\* The market answers collect(&sub.subscription, Some(10.0), Some(20)).
PassCollect ==
    /\ pass.pc = "collect"
    /\ \/ /\ pass' = [pass EXCEPT !.pc = "backoff"]
          /\ UNCHANGED <<armed, sent, batch>>
       \/ \E len \in 0..MaxBatch :
            /\ pass' = IF len = 0
                       THEN PassNext(pass)
                       ELSE [pass EXCEPT !.pc = "dispatch", !.left = len]
            /\ armed' = Rearm(pass', armed)
            /\ sent' = <<>>
            /\ batch' = <<>>
    /\ UNCHANGED <<listeners, subscriptions, joins, sd, market, attempted>>
    /\ UNCHANGED chatVars

\* tokio::time::delay_for(4 s) elapsed.
PassBackoff ==
    /\ pass.pc = "backoff"
    /\ pass' = AfterBackoff(pass)
    /\ armed' = Rearm(pass', armed)
    /\ UNCHANGED <<listeners, subscriptions, joins, sd, market, attempted, sent, batch>>
    /\ UNCHANGED chatVars

\* The block run for one event: the NewUser it builds is sent to the notify
\* target (sub.notify.send(msg).await?); `accepted` is whether the target's
\* mailbox took it.  What was dispatched: one message, or none.
Notified(event, group, accepted) ==
    LET parsed == ParseEvent(event, group)
    IN  IF parsed.ok /\ accepted THEN <<parsed.msg>> ELSE <<>>

\* Variant: an error of the block ends the batch.
AfterEventBail(p, ok) ==
    IF ok /\ p.left > 1 THEN [p EXCEPT !.left = @ - 1] ELSE PassNext(p)

\* if let Err(e) = async move { .. }.await { log::error!(..) }: the loop goes
\* on with the next event whatever the block returned.
AfterEvent(p, ok) ==
    IF p.left > 1 THEN [p EXCEPT !.left = @ - 1] ELSE PassNext(p)

\* The outcomes of the send to the notify target: it is reached only with a
\* NewUser built.
Acceptances(event, group) ==
    IF ParseEvent(event, group).ok THEN BOOLEAN ELSE {TRUE}

\* One event of the batch: parsed and sent to the notify target, or logged.
\* After the last one the history of the batch is closed.
PassEvent ==
    /\ pass.pc = "dispatch"
    /\ \E event \in Events :
        \E accepted \in Acceptances(event, pass.subs[pass.idx].group) :
            LET sub == pass.subs[pass.idx]
                out == Notified(event, sub.group, accepted)
            IN  /\ sent' = IF pass.left = 1 THEN <<>> ELSE sent \o out
                /\ pass' = AfterEvent(pass, out # <<>>)
    /\ armed' = Rearm(pass', armed)
    /\ UNCHANGED <<listeners, subscriptions, joins, sd, market, attempted, batch>>
    /\ UNCHANGED chatVars

\* The same step, where the history of the batch is kept until the next
\* collect answers.
BatchEvent ==
    /\ pass.pc = "dispatch"
    /\ \E event \in Events :
        \E accepted \in Acceptances(event, pass.subs[pass.idx].group) :
            LET sub == pass.subs[pass.idx]
                out == Notified(event, sub.group, accepted)
            IN  /\ sent' = sent \o out
                /\ batch' = Append(batch, [event |-> event, group |-> sub.group,
                                           accepted |-> accepted])
                /\ pass' = AfterEvent(pass, out # <<>>)
    /\ armed' = Rearm(pass', armed)
    /\ UNCHANGED <<listeners, subscriptions, joins, sd, market, attempted>>
    /\ UNCHANGED chatVars

\* ------------------------------------------------------------------------
\* Handler<Shutdown> for Discovery and the future it returns
\* ------------------------------------------------------------------------

\* Variant: the future returns when the first unsubscribe has answered.
SdNextStop(f) == [f EXCEPT !.pc = "done", !.idx = 0]

\* The future after an unsubscribe answered: the next leg, or the end.
SdNext(f) ==
    IF f.pc = "offers" /\ f.idx < Len(f.subs)
    THEN [f EXCEPT !.idx = @ + 1]
    ELSE IF f.pc = "offers" /\ f.listeners # <<>>
    THEN [f EXCEPT !.pc = "demands", !.idx = 1]
    ELSE IF f.pc = "demands" /\ f.idx < Len(f.listeners)
    THEN [f EXCEPT !.idx = @ + 1]
    ELSE [f EXCEPT !.pc = "done", !.idx = 0]

ShutdownMsg ==
    /\ sd.pc = "none"
    /\ LET subs == subscriptions
           ls == [i \in 1..Len(listeners) |-> listeners[i].subscription]
       IN  sd' = IF subs # <<>>
                 THEN [pc |-> "offers", subs |-> subs, listeners |-> ls, idx |-> 1]
                 ELSE IF ls # <<>>
                 THEN [pc |-> "demands", subs |-> subs, listeners |-> ls, idx |-> 1]
                 ELSE [pc |-> "done", subs |-> subs, listeners |-> ls, idx |-> 0]
    /\ subscriptions' = <<>>
    /\ listeners' = <<>>
    /\ UNCHANGED <<joins, pass, armed, market, attempted, sent, batch>>
    /\ UNCHANGED chatVars

\* The market answers the unsubscribe of one leg; a failure is logged.
SdUnsubscribe ==
    /\ sd.pc \in {"offers", "demands"}
    /\ LET leg == IF sd.pc = "offers" THEN sd.subs[sd.idx] ELSE sd.listeners[sd.idx]
       IN  /\ attempted' = attempted \cup {leg}
           /\ \E done \in BOOLEAN :
                 market' = IF done THEN market \ {leg} ELSE market
    /\ sd' = SdNext(sd)
    /\ UNCHANGED <<listeners, subscriptions, joins, pass, armed, sent, batch>>
    /\ UNCHANGED chatVars

DiscNext ==
    \/ InitChatGroupMsg
    \/ \E j \in Joins : JoinOffer(j)
    \/ \E j \in Joins : JoinDemand(j)
    \/ DiscoverUsersMsg
    \/ PassCollect
    \/ PassBackoff
    \/ PassEvent
    \/ ShutdownMsg
    \/ SdUnsubscribe

\* A proposal with our own display name, whatever its issuer: Discovery
\* builds the NewUser and the Chat actor handles it.
SelfProposal ==
    \E issuer \in Nodes :
        LET parsed == ParseEvent([kind |-> "proposal", issuer |-> issuer, me |-> Me], "g1")
        IN  /\ parsed.ok
            /\ HandleNewUser(parsed.msg.user, parsed.msg.address)
            /\ QueueHistory(parsed.msg.user, parsed.msg.address)
            /\ selfSeen' = TRUE
            /\ UNCHANGED received
            /\ UNCHANGED <<mailbox, line, nextLine, failures, delivered, failLog,
                           first, lastEvent>>
            /\ UNCHANGED discVars

\* Joins and polling passes, with the history of each batch.
BatchNext ==
    \/ InitChatGroupMsg
    \/ \E j \in Joins : JoinOffer(j)
    \/ \E j \in Joins : JoinDemand(j)
    \/ DiscoverUsersMsg
    \/ PassCollect
    \/ PassBackoff
    \/ BatchEvent

\* ------------------------------------------------------------------------
\* Handler<RpcEnvelope<SendText>> for Chat
\* ------------------------------------------------------------------------

\* The callers of the inbound envelopes: the node registered first, a node
\* that is not registered, and 0 for a caller id that does not parse as a
\* NodeId.
Callers == {0, 1, Len(users) + 1} \cap (0..MaxNodes)

\* The inbound envelopes: the sender claims a name and sends two messages.
Envelopes ==
    {[caller |-> c, user |-> "carol", messages |-> <<2, 1>>] : c \in Callers}

\* Variant: the lines always show the name the envelope claims.
HandleSendTextClaimed(us, envelope) ==
    IF envelope.caller \notin Nodes
    THEN [reply |-> "InvalidNodeId", lines |-> <<>>]
    ELSE [reply |-> "Ok",
          lines |-> [k \in 1..Len(envelope.messages) |->
                        [user |-> envelope.user, content |-> envelope.messages[k]]]]

\* The handler: the reply and the lines it prints, one for each message.
HandleSendText(us, envelope) ==
    IF envelope.caller \notin Nodes
    THEN [reply |-> "InvalidNodeId", lines |-> <<>>]
    ELSE LET i == FindUser(us, envelope.caller)
             user == IF i # 0 THEN us[i].name ELSE envelope.user
         IN  [reply |-> "Ok",
              lines |-> [k \in 1..Len(envelope.messages) |->
                            [user |-> user, content |-> envelope.messages[k]]]]

RpcEnvelopeMsg ==
    \E envelope \in Envelopes :
        LET out == HandleSendText(users, envelope)
        IN  /\ received' = [seen |-> TRUE, envelope |-> envelope,
                            reply |-> out.reply, lines |-> out.lines]
            /\ UNCHANGED <<users, delivery, mailbox, line, resends, nextLine, console,
                           failures, delivered, failLog, drainedLen, requeued,
                           owed, first, lastEvent, selfSeen>>
            /\ UNCHANGED discVars

ChatNext ==
    \/ NewUserMsg
    \/ NewLineMsg
    \/ LineBus
    \/ \E s \in Slots : ResendBus(s)
    \/ HandleDeliverLater

\* The Chat actor with peers whose reachability comes and goes.
Init == ChatInit /\ DiscInit
Next == ChatNext
Spec == Init /\ [][Next]_vars

\* The same, where the runtime runs every spawned resend future until its
\* transport call answers.
SpecFair ==
    /\ Init
    /\ [][Next]_vars
    /\ \A s \in Slots : WF_vars(ResendBus(s))

\* The same, up to and including the first proposal that carries our own
\* name (a first one that changes nothing leaves the actor where it was, so
\* what holds of the first holds of every one).
SelfNext ==
    \/ ~selfSeen /\ ChatNext
    \/ ~selfSeen /\ SelfProposal
SpecSelf == Init /\ [][SelfNext]_vars

\* The Chat actor up to and including the first inbound envelope (an envelope
\* that changes nothing of the actor leaves it where it was).
ReceiveNext ==
    \/ ~received.seen /\ ChatNext
    \/ ~received.seen /\ RpcEnvelopeMsg
SpecReceive == Init /\ [][ReceiveNext]_vars

\* The Chat actor with every peer reachable (no transport failure is left):
\* appearances and typed lines.
RegistryInit ==
    /\ users = <<>>
    /\ delivery = [n \in {} |-> SendText(Me, <<>>)]
    /\ mailbox = <<>>
    /\ line = IdleLine("none")
    /\ resends = [s \in Slots |-> FreeSlot]
    /\ nextLine = 1
    /\ console = [kind |-> "none", name |-> Me]
    /\ failures = MaxFailures
    /\ delivered = [n \in Nodes |-> <<>>]
    /\ failLog = [n \in Nodes |-> <<>>]
    /\ drainedLen = [n \in Nodes |-> 0]
    /\ requeued = [n \in Nodes |-> FALSE]
    /\ owed = [n \in Nodes |-> {}]
    /\ first = [n \in Nodes |-> ""]
    /\ lastEvent = [user |-> "", address |-> 0, again |-> FALSE]
    /\ selfSeen = FALSE
    /\ received = NotReceived
    /\ DiscInit
RegistryNext ==
    \/ Appearance
    \/ NewLineMsg
    \/ LineBus
SpecRegistry == RegistryInit /\ [][RegistryNext]_vars

\* The Discovery actor: joins, polling passes and shutdown.  The market
\* answers every call, the timer of the backoff fires, and the actor handles
\* the messages it is sent.
SpecDisc == Init /\ [][DiscNext]_vars
SpecBatch == Init /\ [][BatchNext]_vars
SpecDiscFair ==
    /\ Init
    /\ [][DiscNext]_vars
    /\ WF_vars(DiscoverUsersMsg)
    /\ WF_vars(PassCollect)
    /\ WF_vars(PassBackoff)
    /\ WF_vars(PassEvent)

\* ========================================================================
\* Properties of the Chat actor
\* ========================================================================

\* The messages of a peer that are on their way back into its entry or to
\* the peer: the batches of running resends and of DeliverLater messages sent
\* by a resend.
Resending(rs, mb, address) ==
    UNION {Range(rs[s].text.messages) :
               s \in {t \in Slots : rs[t].pc = "bus" /\ rs[t].addr = address}}
    \cup
    UNION {Range(mb[i].messages.messages) :
               i \in {k \in 1..Len(mb) : mb[k].from # 0 /\ mb[k].address = address}}

\* The part of failLog that was not yet queued at the last reappearance.
SinceDrain(address) ==
    SubSeq(failLog[address], drainedLen[address] + 1, Len(failLog[address]))

\* C1: messages queued for a peer are never reordered: whenever two messages
\* are pending for a peer, the one sent first (the lower line number) comes
\* first in the peer's entry, also after a failed resend re-queued its batch.
C1_NeverReordered ==
    \A P \in DOMAIN delivery :
        \A i, j \in 1..Len(delivery[P].messages) :
            i < j => ~(delivery[P].messages[i] > delivery[P].messages[j])

\* C2: messages are never dropped: every message whose transport send to a
\* peer failed is in the peer's pending entry, in a DeliverLater or a resend
\* batch in flight for the peer, or was delivered to the peer.
C2_NeverDropped ==
    \A P \in Nodes :
        \A m \in Range(failLog[P]) :
            \/ m \in Range(Pending(delivery, P))
            \/ m \in Range(LineInFlight(mailbox, P))
            \/ m \in Resending(resends, mailbox, P)
            \/ m \in Range(delivered[P])

\* C2 witness: a resend failed and its batch is back in the peer's entry.
C2_Witness ==
    \E P \in DOMAIN delivery :
        /\ requeued[P]
        /\ delivery[P].messages # <<>>
        /\ \A s \in Slots : resends[s].pc = "free"

\* C3: send_text never raises on a transport failure: the failed send of a
\* line sends DeliverLater and waits (it does not end the NewLine with an
\* error); handling DeliverLater appends the messages to the peer's entry,
\* created if absent, and lets the sender go on with Ok; a successful
\* transport send leaves the delivery map alone.
C3_SendToNeverRaises ==
    [][ /\ (line.pc = "bus" /\ line' # line) =>
              /\ line'.result # "Err"
              /\ delivery' = delivery
              /\ (delivered' = delivered) =>
                    /\ line'.pc = "later"
                    /\ mailbox' = Append(mailbox,
                           [address |-> line.addresses[line.idx],
                            messages |-> line.text, from |-> 0])
              /\ (delivered' # delivered) => mailbox' = mailbox
        /\ (\E s \in Slots : resends[s].pc = "bus" /\ resends'[s] # resends[s]) =>
              delivery' = delivery
        /\ (mailbox # <<>> /\ mailbox' = Tail(mailbox)) =>
              LET msg == Head(mailbox)
              IN  /\ msg.address \in DOMAIN delivery'
                  /\ Pending(delivery', msg.address) =
                         Pending(delivery, msg.address) \o msg.messages.messages
                  /\ \A n \in Nodes \ {msg.address} :
                         Pending(delivery', n) = Pending(delivery, n)
                  /\ (msg.from = 0) =>
                         /\ line.pc = "later"
                         /\ line'.pc \in {"bus", "idle"}
                         /\ line'.result # "Err"
      ]_vars

\* C3 witness: two failed sends were queued for one peer, the first created
\* its entry, and the NewLine calls answered Ok.
C3_Witness ==
    /\ line.pc = "idle"
    /\ line.result = "Ok"
    /\ \E P \in DOMAIN delivery :
          /\ ~requeued[P]
          /\ drainedLen[P] = 0
          /\ Len(delivery[P].messages) >= 2

\* C4: pending entries accumulate in call order and are drained whole: while
\* no failed resend was put back since the peer's last reappearance, its
\* entry (with the failed send still on its way to the queue) is exactly the
\* sequence of the sends that failed since then, and it is absent if there
\* are none; a reappearance removes the entry and hands all of it, in order,
\* to one resend; a successful resend delivers the batch as one unit and
\* leaves the delivery map as it is.
C4_AccumulateAndDrain ==
    /\ [](\A P \in Nodes :
            ~requeued[P] =>
                /\ Pending(delivery, P) \o LineInFlight(mailbox, P) = SinceDrain(P)
                /\ (P \in DOMAIN delivery) => delivery[P].messages # <<>>)
    /\ [][ \A P \in Nodes :
             (P \in DOMAIN delivery /\ P \notin DOMAIN delivery') =>
                 \E s \in Slots :
                     /\ resends[s].pc = "free"
                     /\ resends'[s] = [pc |-> "bus", addr |-> P, text |-> delivery[P]]
                     /\ \A t \in Slots \ {s} : resends'[t] = resends[t]
         ]_vars
    /\ [][ \A s \in Slots :
             (resends[s].pc = "bus" /\ resends'[s] # resends[s]
                                    /\ delivered' # delivered) =>
                 /\ delivered' = [delivered EXCEPT ![resends[s].addr] =
                                      @ \o resends[s].text.messages]
                 /\ delivery' = delivery
                 /\ resends'[s].pc = "free"
         ]_vars

\* C4 witness: every line typed failed towards one peer, the peer reappeared,
\* and the resend carries all of them in order.
C4_Witness ==
    \E s \in Slots :
        /\ resends[s].pc = "bus"
        /\ Len(resends[s].text.messages) = MaxLines
        /\ resends[s].text.messages = failLog[resends[s].addr]
        /\ resends[s].addr \notin DOMAIN delivery

\* C5: of the NewUser events carrying one identity and a name other than
\* ours, the first is reported as a new user and inserts exactly one
\* descriptor, every later one is reported as a reappearance of the stored
\* name and leaves the registry as it is.
C5_FirstThenReappearance ==
    /\ \A a \in Nodes :
          LET descs == {i \in 1..Len(users) : users[i].node_id = a}
          IN  IF first[a] = ""
              THEN descs = {}
              ELSE /\ Cardinality(descs) = 1
                   /\ \A i \in descs : users[i].name = first[a]
    /\ Len(users) = Cardinality({a \in Nodes : first[a] # ""})
    /\ lastEvent.address # 0 =>
          console = IF lastEvent.again
                    THEN [kind |-> "reappeared", name |-> first[lastEvent.address]]
                    ELSE [kind |-> "new", name |-> lastEvent.user]

\* C5 witness: an identity appeared again under another name.
C5_Witness ==
    /\ lastEvent.again
    /\ lastEvent.user # first[lastEvent.address]
    /\ Len(users) = 1

\* C6: guaranteed resend: the messages that were pending for a peer when it
\* reappeared are eventually delivered to the peer unless the transport fails
\* the resend (owed forgets the batch of a resend that failed), and the
\* peer's entry is absent once the reappearance is handled.  (Again and
\* again every message still owed has been delivered.)
C6_GuaranteedResend ==
    /\ []<>(\A P \in Nodes : owed[P] \subseteq Range(delivered[P]))
    /\ [][\A P \in Nodes : ~(owed'[P] \subseteq owed[P]) => P \notin DOMAIN delivery']_vars

\* C6 witness: what a reappearing peer was owed has been delivered to it.
C6_Witness ==
    \E P \in Nodes :
        /\ owed[P] # {}
        /\ owed[P] \subseteq Range(delivered[P])

\* A message has been handed over for a peer: delivered by the transport, or
\* appended to the peer's entry (where a reappearance may have picked it up).
HandedTo(dv, dl, rs, mb, address, m) ==
    \/ m \in Range(dv[address])
    \/ m \in Range(Pending(dl, address))
    \/ m \in Resending(rs, mb, address)

\* C7: NewLine treats the peers of its snapshot independently: a failed
\* transport send makes the loop queue the message and go on with the next
\* peer, and the call answers Ok only when the message was delivered to or
\* queued for every peer of the snapshot.
C7_FanOutIndependent ==
    [][ /\ (line.pc = "bus" /\ line' # line /\ delivered' = delivered) =>
              line'.pc = "later"
        /\ (line.pc = "later" /\ line' # line) =>
              IF line.idx < Len(line.addresses)
              THEN line' = [line EXCEPT !.pc = "bus", !.idx = @ + 1]
              ELSE line'.pc = "idle" /\ line'.result = "Ok"
        /\ (line.pc # "idle" /\ line'.pc = "idle") =>
              /\ line'.result = "Ok"
              /\ line.idx = Len(line.addresses)
              /\ \A i \in 1..Len(line.addresses) :
                    \A m \in Range(line.text.messages) :
                        HandedTo(delivered', delivery', resends', mailbox',
                                 line.addresses[i], m)
      ]_vars

\* C7 witness: a line failed towards the first peer of the snapshot, was
\* queued for it, and was then delivered to the second.
C7_Witness ==
    /\ Len(users) = 2
    /\ line.pc = "idle"
    /\ line.result = "Ok"
    /\ 1 \in Range(Pending(delivery, users[1].node_id))
    /\ 1 \in Range(delivered[users[2].node_id])

\* C11: a proposal whose display name is our own never produces an
\* appearance: handling it inserts no descriptor, reports neither a new user
\* nor a reappearance, and neither drains nor resends a pending batch,
\* whatever identity it carries.
C11_SelfNameFiltered ==
    [][selfSeen' # selfSeen =>
          UNCHANGED <<users, console, delivery, resends, mailbox, delivered>>]_vars

\* C11 witness: a proposal with our name was handled, the one registered
\* peer has a pending entry, and no reappearance was ever reported.
C11_Witness ==
    /\ selfSeen
    /\ Len(users) = 1
    /\ console.kind = "new"
    /\ users[1].node_id \in DOMAIN delivery
    /\ drainedLen[users[1].node_id] = 0

\* The name the registry holds for an identity, "" if it holds none.
RegisteredName(address) ==
    IF \E i \in 1..Len(users) : users[i].node_id = address
    THEN users[CHOOSE i \in 1..Len(users) :
                  /\ users[i].node_id = address
                  /\ \A j \in 1..(i - 1) : users[j].node_id # address].name
    ELSE ""

\* C14: receive accepts unknown senders without changing state: an envelope
\* whose caller id does not parse is answered InvalidNodeId with nothing
\* printed; any other is answered Ok with one line per message, in envelope
\* order, under the registry's name for a registered caller and under the
\* claimed name for an unknown one; the registry and the pending queues are
\* as they were.
C14_ReceiveUnknownSenders ==
    /\ [](received.seen =>
            LET e == received.envelope
                shown == IF RegisteredName(e.caller) # ""
                         THEN RegisteredName(e.caller)
                         ELSE e.user
            IN  IF e.caller \in Nodes
                THEN /\ received.reply = "Ok"
                     /\ Len(received.lines) = Len(e.messages)
                     /\ \A k \in 1..Len(e.messages) :
                           received.lines[k] = [user |-> shown, content |-> e.messages[k]]
                ELSE /\ received.reply = "InvalidNodeId"
                     /\ received.lines = <<>>)
    /\ [][received' # received =>
              UNCHANGED <<users, delivery, mailbox, resends, line, console>>]_vars

\* C14 witness: an envelope from an identity the registry does not hold was
\* answered Ok and printed under the claimed name, while a registered peer
\* has a pending entry.
C14_Witness ==
    /\ received.seen
    /\ received.envelope.caller \in Nodes
    /\ RegisteredName(received.envelope.caller) = ""
    /\ received.reply = "Ok"
    /\ Len(received.lines) = 2
    /\ received.lines[1].user = "carol"
    /\ Len(users) = 1
    /\ DOMAIN delivery # {}

\* C15: pending entries exist only while non-empty: every entry of the
\* delivery map holds at least one message.
C15_EntriesNonEmpty ==
    \A P \in DOMAIN delivery : delivery[P].messages # <<>>

\* C15 witness: a peer's entry was drained by its reappearance and is gone,
\* while another peer has an entry.
C15_Witness ==
    \E P, Q \in Nodes :
        /\ drainedLen[P] > 0
        /\ P \notin DOMAIN delivery
        /\ Q \in DOMAIN delivery

\* No element occurs twice in a sequence.
NoRepeat(q) == \A i, k \in 1..Len(q) : q[i] = q[k] => i = k

\* C18: at-most-once delivery per peer (the transport fails only when it
\* delivered nothing): no message is delivered to a peer twice and none
\* occurs twice in a peer's pending entry, and a message that has been
\* delivered to a peer is not pending for it.
C18_AtMostOnce ==
    \A P \in Nodes :
        /\ NoRepeat(delivered[P])
        /\ NoRepeat(Pending(delivery, P))
        /\ Range(delivered[P]) \cap Range(Pending(delivery, P)) = {}

\* C18 witness: the only peer reappeared again after a resend spawned for it
\* had failed (more sends failed than lines did), and every line that failed
\* has reached the peer, by a later resend.
C18_Witness ==
    \E P \in Nodes :
        /\ Len(users) = 1
        /\ requeued[P] = FALSE
        /\ owed[P] # {}
        /\ Len(failLog[P]) >= 1
        /\ failures > Len(failLog[P])
        /\ Range(failLog[P]) \subseteq Range(delivered[P])
        /\ P \notin DOMAIN delivery

\* The entries of all peers but one are the same in two delivery maps.
SameButFor(d, e, address) ==
    /\ (DOMAIN d) \ {address} = (DOMAIN e) \ {address}
    /\ \A Q \in (DOMAIN d) \ {address} : d[Q] = e[Q]

\* C19: pending entries belong to registered peers only: every key of the
\* delivery map is the identity of a descriptor of the registry, and a step
\* that changes the map is the handling of a DeliverLater for a peer or of a
\* reappearance of a peer (a resend starts for it), and changes the entry of
\* that peer alone.
C19_PendingForRegisteredOnly ==
    /\ [](DOMAIN delivery \subseteq {users[i].node_id : i \in 1..Len(users)})
    /\ [][delivery' # delivery =>
              \/ /\ mailbox # <<>>
                 /\ mailbox' = Tail(mailbox)
                 /\ SameButFor(delivery, delivery', Head(mailbox).address)
              \/ \E s \in Slots :
                    /\ resends[s].pc = "free"
                    /\ resends'[s].pc = "bus"
                    /\ SameButFor(delivery, delivery', resends'[s].addr)]_vars

\* C19 witness: of two registered peers one reappeared and its entry was
\* taken, while the entry of the other still holds every line that failed
\* for it.
C19_Witness ==
    \E P, Q \in Nodes :
        /\ P # Q
        /\ Len(users) = 2
        /\ drainedLen[P] > 0
        /\ P \notin DOMAIN delivery
        /\ Q \in DOMAIN delivery
        /\ delivery[Q].messages = failLog[Q]
        /\ drainedLen[Q] = 0

\* ========================================================================
\* Properties of the Discovery actor
\* ========================================================================

\* The demand subscription is in the actor's listener list.
Listening(d) == \E i \in 1..Len(listeners) : listeners[i].subscription = d

\* A collect of the demand subscription is in flight.
Polling(d) == pass.pc = "collect" /\ pass.subs[pass.idx].subscription = d

\* C8: join is all-or-nothing: a join that fails, at the offer or at the
\* demand, leaves listeners and subscriptions as they were, also when its
\* offer was published; a join of which both publishes succeeded adds exactly
\* one listener entry for the group and one offer subscription; the lists
\* never hold an id of a join that did not succeed.
C8_JoinAllOrNothing ==
    /\ [](\A j \in Joins :
            joins[j].pc # "ok" =>
                /\ ~Listening(DemandId(j))
                /\ OfferId(j) \notin Range(subscriptions))
    /\ [][ \A j \in Joins :
             /\ (joins[j].pc \in {"offer", "demand"} /\ joins'[j].pc = "err") =>
                    /\ listeners' = listeners
                    /\ subscriptions' = subscriptions
             /\ (joins[j].pc = "offer" /\ joins'[j].pc = "demand") =>
                    /\ listeners' = listeners
                    /\ subscriptions' = subscriptions
             /\ (joins[j].pc # "ok" /\ joins'[j].pc = "ok") =>
                    /\ joins[j].pc = "demand"
                    /\ {OfferId(j), DemandId(j)} \subseteq market'
                    /\ listeners' = Append(listeners,
                           [subscription |-> DemandId(j), group |-> joins[j].group,
                            notify |-> "chat"])
                    /\ subscriptions' = Append(subscriptions, OfferId(j))
         ]_vars

\* C8 witness: one join succeeded; of another the offer was published and the
\* demand failed, and nothing of it is in the lists.
C8_Witness ==
    \E j, k \in Joins :
        /\ joins[j].pc = "ok"
        /\ joins[k].pc = "err"
        /\ OfferId(k) \in market
        /\ Len(listeners) = 1
        /\ Len(subscriptions) = 1

\* C9: a shutdown stops the polling loop: once Shutdown is handled, no new
\* collect is issued for a subscription that Shutdown took from the listener
\* list; only a collect that was in flight at that moment may still end.
C9_ShutdownStopsPolling ==
    [][ (/\ sd.pc # "none"
         /\ pass'.pc = "collect"
         /\ (pass.pc # "collect" \/ pass'.idx # pass.idx)) =>
            pass'.subs[pass'.idx].subscription \notin Range(sd.listeners)
      ]_vars

\* C10: a poll failure never abandons a subscription: the failed collect
\* leaves the listener list and the pass where they are and goes to the
\* backoff; after the backoff the pass goes on with the next subscription, or
\* ends and re-arms; and, while no shutdown is handled, every subscription in
\* the listener list is polled again and again.
C10_PollFailureKeepsSubscription ==
    /\ [][ (pass.pc = "collect" /\ pass'.pc = "backoff") =>
              /\ listeners' = listeners
              /\ pass'.subs = pass.subs
              /\ pass'.idx = pass.idx
         ]_vars
    /\ [][ (pass.pc = "backoff" /\ pass' # pass) =>
              IF pass.idx < Len(pass.subs)
              THEN /\ pass'.pc = "collect"
                   /\ pass'.subs = pass.subs
                   /\ pass'.idx = pass.idx + 1
              ELSE /\ pass'.pc = "idle"
                   /\ armed' = armed + 1
         ]_vars
    /\ \A j \in Joins :
          Listening(DemandId(j)) ~> (Polling(DemandId(j)) \/ sd.pc # "none")

\* C10 witness: the collect of the first of two subscriptions failed and the
\* pass waits the backoff, the listener list as it was.
C10_Witness ==
    /\ pass.pc = "backoff"
    /\ pass.idx = 1
    /\ Len(pass.subs) = 2
    /\ Len(listeners) = 2
    /\ sd.pc = "none"

\* A proposal that carries a node id and a display name.
WellFormed(event) ==
    /\ event.kind = "proposal"
    /\ event.issuer \in Nodes
    /\ event.me \in Names

\* The appearance notifications owed for the events taken so far: one for
\* each well-formed proposal the target accepted, in the order of the batch.
RECURSIVE Owing(_)
Owing(b) ==
    IF b = <<>>
    THEN <<>>
    ELSE LET n == Len(b)
             e == b[n]
         IN  Owing(SubSeq(b, 1, n - 1)) \o
             (IF WellFormed(e.event) /\ e.accepted
              THEN <<[group |-> e.group, address |-> e.event.issuer, user |-> e.event.me]>>
              ELSE <<>>)

\* C12: a malformed proposal mid-batch does not block the later ones: the
\* notifications dispatched from a batch are those of its well-formed and
\* accepted proposals, in batch order, whatever came before them, and every
\* event of the batch is taken, one at a time, until the batch is through.
C12_MalformedDoesNotBlock ==
    /\ [](sent = Owing(batch))
    /\ [][pass.pc = "dispatch" /\ pass.left > 1 /\ pass' # pass =>
              /\ pass'.pc = "dispatch"
              /\ pass'.left = pass.left - 1
              /\ pass'.idx = pass.idx
              /\ Len(batch') = Len(batch) + 1]_vars

\* C12 witness: a batch whose first event was malformed and whose next was a
\* well-formed proposal, which was dispatched.
C12_Witness ==
    /\ Len(batch) = 2
    /\ ~WellFormed(batch[1].event)
    /\ WellFormed(batch[2].event)
    /\ batch[2].accepted
    /\ sent = <<[group |-> batch[2].group, address |-> batch[2].event.issuer,
                 user |-> batch[2].event.me]>>

\* The legs a Shutdown future took from the actor's lists.
Held(f) == Range(f.subs) \cup Range(f.listeners)

\* C13: leave is best-effort and complete over the actor's state: handling
\* Shutdown takes every offer id of subscriptions and every demand id of
\* listeners and leaves both lists empty; the future calls unsubscribe for
\* one held leg at a time and goes on whether the call failed or not; it ends
\* replying Ok ("done"), with an unsubscribe attempted for every held leg.
C13_LeaveBestEffort ==
    /\ [](sd.pc \in {"none", "offers", "demands", "done"})
    /\ [](sd.pc = "done" => Held(sd) \subseteq attempted)
    /\ [][sd.pc = "none" /\ sd'.pc # "none" =>
              /\ sd'.subs = subscriptions
              /\ sd'.listeners = [i \in 1..Len(listeners) |-> listeners[i].subscription]
              /\ listeners' = <<>>
              /\ subscriptions' = <<>>]_vars
    /\ [][attempted' # attempted =>
              /\ \E leg \in Held(sd) \ attempted : attempted' = attempted \cup {leg}
              /\ sd'.pc # "done" <=> Held(sd) \ attempted' # {}]_vars

\* C13 witness: a Shutdown that held the legs of two joins has ended, every
\* leg was attempted and an unsubscribe that failed left its leg published.
C13_Witness ==
    /\ sd.pc = "done"
    /\ Len(sd.subs) = 2
    /\ Len(sd.listeners) = 2
    /\ Held(sd) \subseteq attempted
    /\ OfferId(1) \in market

\* C16: at most one active GroupSubscription per group name: no two entries
\* of listeners carry the same group, whatever InitChatGroup requests were
\* made.
C16_OneSubscriptionPerGroup ==
    \A i, k \in 1..Len(listeners) :
        listeners[i].group = listeners[k].group => i = k

\* C17: no leg outlives leave: once the Shutdown future has ended, every
\* offer and demand still published at the market has had an unsubscribe
\* attempted (a leg leaves the market only by an unsubscribe), and the
\* actor's listeners and subscriptions are empty.
C17_NoLegOutlivesLeave ==
    sd.pc = "done" =>
        /\ market \subseteq attempted
        /\ listeners = <<>>
        /\ subscriptions = <<>>

\* The DiscoverUsers passes pending in the mailbox or in flight.
Passes == armed + (IF pass.pc = "idle" THEN 0 ELSE 1)

\* C20: polling passes never overlap: at most one DiscoverUsers pass is
\* pending or in flight (so a pending one finds no pass running), and a
\* follow-up DiscoverUsers is sent only by a pass that ends, after the last
\* subscription of its snapshot, one at a time.
C20_PassesNeverOverlap ==
    /\ [](Passes <= 1)
    /\ [](armed > 0 => pass.pc = "idle")
    /\ [][armed' > armed =>
              /\ armed' = armed + 1
              /\ pass.pc # "idle"
              /\ pass'.pc = "idle"
              /\ pass.idx = Len(pass.subs)]_vars

\* C20 witness: a pass is handling the events of the second subscription of
\* its snapshot and no other DiscoverUsers is pending.
C20_Witness ==
    /\ pass.pc = "dispatch"
    /\ pass.idx = 2
    /\ Len(pass.subs) = 2
    /\ armed = 0

====
